---- MODULE Spec2Model ----
(***************************************************************************)
(* A model of perfkitbenchmarker/providers/aws/util.py (zone and region    *)
(* names, tag formatting, the retryable AWS command) and of                *)
(* perfkitbenchmarker/data/messaging_service/aws_sqs_client.py (the SQS    *)
(* messaging client driven by the benchmark phase runner).                 *)
(*                                                                         *)
(* Python strings are modelled as sequences of one-character strings, so   *)
(* that indexing, slicing, matching and formatting are computed and not    *)
(* assumed.                                                                *)
(***************************************************************************)
EXTENDS Integers, Sequences, FiniteSets, TLC

VARIABLES
    \* ---- IsRegion / GetRegionFromZone
    zone_or_region,   \* the argument
    isRegionRes,      \* outcome of IsRegion(zone_or_region)
    regionRes,        \* outcome of GetRegionFromZone(zone_or_region)
    \* ---- GetRegionFromZones
    zones,            \* the argument, in iteration order
    zonesRes,         \* outcome of GetRegionFromZones(zones)
    \* ---- FormatTags / FormatTagSpecifications
    tags_dict,        \* the dict, as its (key, value) items in iteration order
    resource_type,    \* the resource type label
    tagsRes,          \* outcome of FormatTags(tags_dict)
    tagSpecRes,       \* outcome of FormatTagSpecifications(resource_type, tags_dict)
    \* ---- IssueRetryableCommand under vm_util.Retry
    suppress_failure, \* the predicate passed by the caller ("None" when absent)
    budget,           \* the configured retry budget (attempts allowed)
    cmdPc,            \* "try" | "wrap" | "done"
    history,          \* the raw result of the process spawned by each attempt
    lastAttempt,      \* outcome of the last run of IssueRetryableCommand's body
    cmdRes,           \* what the retrying call gave its caller
    returns,          \* how many times the retrying call returned a result
    \* ---- the benchmark phase over the SQS client
    scenario,         \* "publish" | "pull" | "roundtrip"
    number_of_messages,
    phase,            \* "Running" | "Completed" | "Error"
    iter,             \* the current iteration, 1..number_of_messages
    step,             \* the next operation of the iteration
    queue,            \* the SQS queue: visible messages, oldest first
    inflight,         \* receipt handles of received, not yet deleted messages
    response,         \* the last receive_message response
    samples,          \* the recorded samples, in recording order
    preloaded,        \* whether the queue held messages before the phase
    providerFailed,   \* whether the provider rejected an operation
    ackOnEmpty        \* acknowledge calls made on a response without a message

zoneVars == <<zone_or_region, isRegionRes, regionRes>>
zonesVars == <<zones, zonesRes>>
tagVars == <<tags_dict, resource_type, tagsRes, tagSpecRes>>
cmdVars == <<suppress_failure, budget, cmdPc, history, lastAttempt, cmdRes, returns>>
benchVars == <<scenario, number_of_messages, phase, iter, step, queue, inflight,
               response, samples, preloaded, providerFailed, ackOnEmpty>>
vars == <<zoneVars, zonesVars, tagVars, cmdVars, benchVars>>

\* ------------------------------------------------------------------ bounds
\* Longest argument string given to IsRegion / GetRegionFromZone.
MaxLen == 7
\* Longest collection given to GetRegionFromZones.
MaxZones == 3
\* Largest tag dict.
MaxTags == 3
\* Largest configured retry budget.
MaxBudget == 3
\* Largest number_of_messages of a phase.
MaxMessages == 3
\* Most messages in the queue before the phase starts.
MaxPreloaded == 1

\* ------------------------------------------------------- outcomes of a call
NotCalled == [st |-> "none"]
Ok(v) == [st |-> "ok", val |-> v]
Raise(e) == [st |-> "raise", err |-> e]

\* ---------------------------------------------------------------- strings
Lower == {"a", "b", "c", "d", "e", "f", "g", "h", "i", "j", "k", "l", "m",
          "n", "o", "p", "q", "r", "s", "t", "u", "v", "w", "x", "y", "z"}
\* string.digits, and the class [0-9]
Digits == {"0", "1", "2", "3", "4", "5", "6", "7", "8", "9"}

\* The characters argument strings are drawn from: a letter, the hyphen, a
\* digit, and the newline (a character outside every class of the pattern).
Alphabet == {"a", "-", "1", "\n"}
Strings == UNION {[1..n -> Alphabet] : n \in 0..MaxLen}

\* zone_or_region[:-1]
DropLast(s) == IF Len(s) = 0 THEN s ELSE SubSeq(s, 1, Len(s) - 1)

\* The pattern's "$": the end of the string, or just before a newline that
\* ends the string. p is the first position not yet consumed.
AtDollar(s, p) == p = Len(s) + 1 \/ (p = Len(s) /\ s[p] = "\n")

\* re.match(r'[a-z]{2}-[a-z]+-[0-9][a-z]?$', s): anchored at the start; k is
\* the length of the [a-z]+ run, opt whether [a-z]? consumes a character.
ReMatch(s) ==
    \E k \in 1..Len(s) : \E opt \in {0, 1} :
        /\ Len(s) >= 5 + k + opt
        /\ s[1] \in Lower /\ s[2] \in Lower
        /\ s[3] = "-"
        /\ \A i \in 4..(3 + k) : s[i] \in Lower
        /\ s[4 + k] = "-"
        /\ s[5 + k] \in Digits
        /\ (opt = 1 => s[6 + k] \in Lower)
        /\ AtDollar(s, 6 + k + opt)

IsRegion_NoValidation(s) ==
    IF Len(s) = 0 THEN Raise("IndexError") ELSE Ok(s[Len(s)] \in Digits)

IsRegion(s) ==
    IF ~ReMatch(s) THEN Raise("ValueError")
    ELSE Ok(s[Len(s)] \in Digits)

GetRegionFromZone(s) ==
    LET r == IsRegion(s) IN
    IF r.st = "raise" THEN r
    ELSE IF r.val THEN Ok(s)
    ELSE Ok(DropLast(s))

\* The loop variable "region" of GetRegionFromZones: None, or a string.
PyNone == [none |-> TRUE, s |-> <<>>]
PyStr(s) == [none |-> FALSE, s |-> s]

\* One pass of the loop body of GetRegionFromZones; acc is the outcome so far
\* (Ok(region), or the exception that ended the loop).
ZonesStep_NoRaise(acc, zone) ==
    IF acc.st = "raise" THEN acc
    ELSE LET cur == GetRegionFromZone(zone) IN
         IF cur.st = "raise" THEN cur
         ELSE IF acc.val.none THEN Ok(PyStr(cur.val))
         ELSE acc

ZonesStep(acc, zone) ==
    IF acc.st = "raise" THEN acc
    ELSE LET cur == GetRegionFromZone(zone) IN
         IF cur.st = "raise" THEN cur
         ELSE IF acc.val.none THEN Ok(PyStr(cur.val))
         ELSE IF acc.val.s # cur.val THEN Raise("Exception")
         ELSE acc

RECURSIVE ZonesLoop(_, _)
ZonesLoop(acc, zs) ==
    IF zs = <<>> THEN acc ELSE ZonesLoop(ZonesStep(acc, Head(zs)), Tail(zs))

GetRegionFromZones(zs) == ZonesLoop(Ok(PyNone), zs)

\* ------------------------------------------------------------ tag formatting
\* The code points of the characters tag keys and values are drawn from.
CodePoint(c) ==
    CASE c = "1" -> 49 [] c = "2" -> 50 [] c = "B" -> 66
      [] c = "a" -> 97 [] c = "b" -> 98

\* Python's "<" on two strings.
StrLess(x, y) ==
    \/ \E i \in 1..Len(x) :
          /\ i <= Len(y)
          /\ \A j \in 1..(i - 1) : x[j] = y[j]
          /\ CodePoint(x[i]) < CodePoint(y[i])
    \/ (Len(x) < Len(y) /\ \A j \in 1..Len(x) : x[j] = y[j])

\* Python's "<" on two (key, value) tuples.
ItemLess(p, q) == StrLess(p[1], q[1]) \/ (p[1] = q[1] /\ StrLess(p[2], q[2]))

\* sorted(): a stable sort; x goes before the first element greater than it.
RECURSIVE InsertItem(_, _)
InsertItem(sortedItems, x) ==
    IF sortedItems = <<>> THEN <<x>>
    ELSE IF ItemLess(x, Head(sortedItems)) THEN <<x>> \o sortedItems
    ELSE <<Head(sortedItems)>> \o InsertItem(Tail(sortedItems), x)

RECURSIVE SortedItems(_)
SortedItems(items) ==
    IF items = <<>> THEN <<>>
    ELSE InsertItem(SortedItems(DropLast(items)), items[Len(items)])

\* 'Key=%s,Value=%s' % (k, v)
FmtTag(k, v) == <<"K", "e", "y", "=">> \o k \o <<",", "V", "a", "l", "u", "e", "=">> \o v

\* '{Key=%s,Value=%s}' % (k, v)
FmtTagSpec(k, v) == <<"{", "K", "e", "y", "=">> \o k \o <<",", "V", "a", "l", "u", "e", "=">> \o v \o <<"}">>

\* sep.join(parts)
RECURSIVE Join(_, _)
Join(sep, parts) ==
    IF parts = <<>> THEN <<>>
    ELSE IF Len(parts) = 1 THEN parts[1]
    ELSE parts[1] \o sep \o Join(sep, Tail(parts))

FormatTags_Unsorted(d) == [i \in 1..Len(d) |-> FmtTag(d[i][1], d[i][2])]

FormatTags(d) ==
    LET items == SortedItems(d) IN
    [i \in 1..Len(items) |-> FmtTag(items[i][1], items[i][2])]

FormatTagSpecifications(rt, d) ==
    LET tags == Join(<<",">>, [i \in 1..Len(d) |-> FmtTagSpec(d[i][1], d[i][2])])
    IN <<"R", "e", "s", "o", "u", "r", "c", "e", "T", "y", "p", "e", "=">> \o rt \o <<",", "T", "a", "g", "s", "=", "[">> \o tags \o <<"]">>

\* ------------------------------------------------- the retryable AWS command
\* What one spawned process gives back: its output texts and its exit code.
ProcResults == [stdout : {"out"}, stderr : {"", "warn", "err"}, retcode : {0, 1}]

\* The suppress_failure predicates a caller may pass.
SuppressChoices == {"None", "stderr_is_warn"}

\* suppress_failure(stdout, stderr, retcode)
Suppresses(f, r) == f = "stderr_is_warn" /\ r.stderr = "warn"

\* vm_util.IssueCommand(cmd, raise_on_failure=False, suppress_failure=f) on a
\* process that gave r: a failed result the predicate accepts is turned into
\* a successful one.
IssueCommand(r, f) ==
    IF f # "None" /\ (r.retcode # 0 \/ r.stderr # "") /\ Suppresses(f, r)
    THEN [stdout |-> r.stdout, stderr |-> "", retcode |-> 0]
    ELSE r

CalledProcessException(msg) ==
    [st |-> "raise", err |-> "CalledProcessException", msg |-> msg]

IssueRetryableCommand_NoStderrCheck(r, f) ==
    LET c == IssueCommand(r, f) IN
    IF c.retcode # 0 THEN CalledProcessException("non-zero exit code")
    ELSE Ok(<<c.stdout, c.stderr>>)

IssueRetryableCommand_NoRetcodeCheck(r, f) ==
    LET c == IssueCommand(r, f) IN
    IF c.stderr # "" THEN CalledProcessException("output on stderr")
    ELSE Ok(<<c.stdout, c.stderr>>)

IssueRetryableCommand_DropsSuppress(r, f) ==
    LET c == IssueCommand(r, "None") IN
    IF c.retcode # 0 THEN CalledProcessException("non-zero exit code")
    ELSE IF c.stderr # "" THEN CalledProcessException("output on stderr")
    ELSE Ok(<<c.stdout, c.stderr>>)

IssueRetryableCommand_RaisesOnEmptyStderr(r, f) ==
    LET c == IssueCommand(r, f) IN
    IF c.retcode # 0 THEN CalledProcessException("non-zero exit code")
    ELSE IF c.stderr = "" THEN CalledProcessException("output on stderr")
    ELSE Ok(<<c.stdout, c.stderr>>)

\* The body of IssueRetryableCommand, one attempt, on a process that gave r.
IssueRetryableCommand(r, f) ==
    LET c == IssueCommand(r, f) IN
    IF c.retcode # 0 THEN CalledProcessException("non-zero exit code")
    ELSE IF c.stderr # "" THEN CalledProcessException("output on stderr")
    ELSE Ok(<<c.stdout, c.stderr>>)

\* What vm_util.Retry raises once the budget is spent.
RetryBudgetExhausted(last) ==
    [st |-> "raise", err |-> "RetryBudgetExhausted", cause |-> last]

\* ---------------------------------------------------------- the SQS client
\* A receive_message response; an empty Messages stands for the response
\* that carries no 'Messages' entry.
NoMessages == [Messages |-> <<>>]

\* _publish_message: queue.send_message(MessageBody=message) makes the
\* message visible at the end of the queue q.
publish_message_Drops(q, message) == q

publish_message(q, message) == Append(q, message)

\* The messages receive_message may hand out: with a wait of TIMEOUT seconds
\* any visible message, and none (0) only when the queue stays empty.
PullChoices(q) == IF q = <<>> THEN {0} ELSE 1..Len(q)

\* _pull_message: receive_message(MaxNumberOfMessages=1, WaitTimeSeconds=
\* TIMEOUT) hands out at most one message, the one at position idx.
pull_message(q, idx) ==
    IF idx = 0 THEN NoMessages
    ELSE [Messages |-> <<[Body |-> q[idx], ReceiptHandle |-> q[idx]]>>]

\* The queue after the receive: the message handed out is no longer visible.
AfterReceive(q, idx) ==
    IF idx = 0 THEN q ELSE SubSeq(q, 1, idx - 1) \o SubSeq(q, idx + 1, Len(q))

\* _acknowledge_received_message: response['Messages'][0] fails on a response
\* without a message; otherwise delete_message removes the received message.
acknowledge_received_message(handles, resp) ==
    IF resp.Messages = <<>> THEN [st |-> "raise", err |-> "KeyError", handles |-> handles]
    ELSE [st |-> "ok", handles |-> handles \ {resp.Messages[1].ReceiptHandle}]

Sample(kind, i, ok) == [kind |-> kind, iter |-> i, ok |-> ok]

\* The operations of one iteration of a scenario, in order.
FirstStep(sc) == IF sc = "pull" THEN "pull" ELSE "publish"

\* Whether the runner acknowledges after a pull that gave resp.
AcksAfterPull_Always(resp) == TRUE

AcksAfterPull(resp) == resp.Messages # <<>>

\* ============================================================ initial states
ZoneIdle == zone_or_region = <<>> /\ isRegionRes = NotCalled /\ regionRes = NotCalled
ZonesIdle == zones = <<>> /\ zonesRes = NotCalled
TagIdle ==
    /\ tags_dict = <<>> /\ resource_type = <<>>
    /\ tagsRes = NotCalled /\ tagSpecRes = NotCalled
CmdIdle ==
    /\ suppress_failure = "None" /\ budget = 1 /\ cmdPc = "done"
    /\ history = <<>> /\ lastAttempt = NotCalled /\ cmdRes = NotCalled
    /\ returns = 0
BenchIdle ==
    /\ scenario = "publish" /\ number_of_messages = 1 /\ phase = "Completed"
    /\ iter = 1 /\ step = "publish" /\ queue = <<>> /\ inflight = {}
    /\ response = NoMessages /\ samples = <<>> /\ preloaded = FALSE
    /\ providerFailed = FALSE /\ ackOnEmpty = 0

ZoneInit ==
    /\ zone_or_region \in Strings
    /\ isRegionRes = NotCalled /\ regionRes = NotCalled

\* The names a collection of zones is drawn from: every string within MaxLen
\* that the pattern accepts (each is two letters, a hyphen, a word, a hyphen
\* and a tail of one to three characters), and the empty string, which it
\* rejects.
Letters == Alphabet \cap Lower
NameTails == UNION {[1..n -> Alphabet] : n \in 1..3}
ZoneNames ==
    {s \in {p \o <<"-">> \o w \o <<"-">> \o t :
                p \in [1..2 -> Letters],
                w \in UNION {[1..n -> Letters] : n \in 1..(MaxLen - 5)},
                t \in NameTails} :
        Len(s) <= MaxLen /\ ReMatch(s)} \cup {<<>>}

ZonesInit ==
    /\ zones \in UNION {[1..n -> ZoneNames] : n \in 0..MaxZones}
    /\ zonesRes = NotCalled

TagKeys == {<<"a">>, <<"b">>, <<"B">>, <<"a", "b">>}
TagValues == {<<"1">>, <<"2">>}
\* A dict has each key once; its items come in insertion order.
TagDicts ==
    {d \in UNION {[1..n -> TagKeys \X TagValues] : n \in 0..MaxTags} :
        \A i, j \in 1..Len(d) : i # j => d[i][1] # d[j][1]}
ResourceTypes == {<<"v", "p", "c">>, <<"i">>}

TagInit ==
    /\ tags_dict \in TagDicts
    /\ resource_type \in ResourceTypes
    /\ tagsRes = NotCalled /\ tagSpecRes = NotCalled

CmdInit ==
    /\ suppress_failure \in SuppressChoices
    /\ budget \in 1..MaxBudget
    /\ cmdPc = "try"
    /\ history = <<>> /\ lastAttempt = NotCalled /\ cmdRes = NotCalled
    /\ returns = 0

\* main(): the client is bound to its queue, then run_phase starts. Messages
\* left in the queue by an earlier phase are numbered -1, -2, ...
BenchInit ==
    /\ scenario \in {"publish", "pull", "roundtrip"}
    /\ number_of_messages \in 1..MaxMessages
    /\ \E n \in 0..MaxPreloaded :
          /\ queue = [j \in 1..n |-> 0 - j]
          /\ preloaded = (n > 0)
    /\ phase = "Running" /\ iter = 1 /\ step = FirstStep(scenario)
    /\ inflight = {} /\ response = NoMessages /\ samples = <<>>
    /\ providerFailed = FALSE /\ ackOnEmpty = 0

\* =================================================================== actions
CallIsRegion ==
    /\ isRegionRes = NotCalled
    /\ isRegionRes' = IsRegion(zone_or_region)
    /\ UNCHANGED <<zone_or_region, regionRes, zonesVars, tagVars, cmdVars, benchVars>>

CallGetRegionFromZone ==
    /\ regionRes = NotCalled
    /\ regionRes' = GetRegionFromZone(zone_or_region)
    /\ UNCHANGED <<zone_or_region, isRegionRes, zonesVars, tagVars, cmdVars, benchVars>>

CallGetRegionFromZones ==
    /\ zonesRes = NotCalled
    /\ zonesRes' = GetRegionFromZones(zones)
    /\ UNCHANGED <<zones, zoneVars, tagVars, cmdVars, benchVars>>

CallFormatTags ==
    /\ tagsRes = NotCalled
    /\ tagsRes' = Ok(FormatTags(tags_dict))
    /\ UNCHANGED <<tags_dict, resource_type, tagSpecRes, zoneVars, zonesVars,
                   cmdVars, benchVars>>

CallFormatTagSpecifications ==
    /\ tagSpecRes = NotCalled
    /\ tagSpecRes' = Ok(FormatTagSpecifications(resource_type, tags_dict))
    /\ UNCHANGED <<tags_dict, resource_type, tagsRes, zoneVars, zonesVars,
                   cmdVars, benchVars>>

\* One attempt: a process is spawned and the body of IssueRetryableCommand
\* runs on what it gave.
Attempt ==
    /\ cmdPc = "try"
    /\ \E r \in ProcResults :
          /\ history' = Append(history, r)
          /\ lastAttempt' = IssueRetryableCommand(r, suppress_failure)
    /\ cmdPc' = "wrap"
    /\ UNCHANGED <<suppress_failure, budget, cmdRes, returns, zoneVars, zonesVars,
                   tagVars, benchVars>>

\* vm_util.Retry: the attempt returned, and so does the retrying call.
RetryReturn ==
    /\ cmdPc = "wrap" /\ lastAttempt.st = "ok"
    /\ cmdRes' = lastAttempt
    /\ returns' = returns + 1
    /\ cmdPc' = "done"
    /\ UNCHANGED <<suppress_failure, budget, history, lastAttempt, zoneVars,
                   zonesVars, tagVars, benchVars>>

\* vm_util.Retry: the attempt raised and the budget allows another one.
RetryAgain ==
    /\ cmdPc = "wrap" /\ lastAttempt.st = "raise"
    /\ Len(history) < budget
    /\ cmdPc' = "try"
    /\ UNCHANGED <<suppress_failure, budget, history, lastAttempt, cmdRes, returns,
                   zoneVars, zonesVars, tagVars, benchVars>>

\* vm_util.Retry: the attempt raised and the budget is spent.
RetryGiveUp ==
    /\ cmdPc = "wrap" /\ lastAttempt.st = "raise"
    /\ Len(history) >= budget
    /\ cmdRes' = RetryBudgetExhausted(lastAttempt)
    /\ cmdPc' = "done"
    /\ UNCHANGED <<suppress_failure, budget, history, lastAttempt, returns,
                   zoneVars, zonesVars, tagVars, benchVars>>

\* The iteration after the current one, or the end of the phase.
NextIteration ==
    IF iter < number_of_messages
    THEN /\ iter' = iter + 1 /\ step' = FirstStep(scenario) /\ phase' = phase
    ELSE /\ iter' = iter /\ step' = step /\ phase' = "Completed"

\* An operation the provider rejects ends the phase with BenchmarkError; the
\* samples recorded so far are kept.
Abort ==
    /\ phase' = "Error" /\ providerFailed' = TRUE
    /\ UNCHANGED <<iter, step, queue, inflight, response, samples, ackOnEmpty>>

DoPublish ==
    /\ phase = "Running" /\ step = "publish"
    /\ \E rejected \in BOOLEAN :
          IF rejected THEN Abort
          ELSE /\ queue' = publish_message(queue, iter)
               /\ samples' = Append(samples, Sample("publish", iter, TRUE))
               /\ IF scenario = "roundtrip"
                  THEN step' = "pull" /\ UNCHANGED <<iter, phase>>
                  ELSE NextIteration
               /\ UNCHANGED <<inflight, response, providerFailed, ackOnEmpty>>
    /\ UNCHANGED <<scenario, number_of_messages, preloaded, zoneVars, zonesVars,
                   tagVars, cmdVars>>

DoPull ==
    /\ phase = "Running" /\ step = "pull"
    /\ \E rejected \in BOOLEAN :
          IF rejected THEN Abort
          ELSE \E idx \in PullChoices(queue) :
               LET resp == pull_message(queue, idx) IN
               /\ response' = resp
               /\ queue' = AfterReceive(queue, idx)
               /\ inflight' = inflight \cup {m.ReceiptHandle : m \in {resp.Messages[i] : i \in 1..Len(resp.Messages)}}
               /\ samples' = Append(samples, Sample("pull", iter, resp.Messages # <<>>))
               /\ IF AcksAfterPull(resp)
                  THEN step' = "acknowledge" /\ UNCHANGED <<iter, phase>>
                  ELSE NextIteration
               /\ UNCHANGED <<providerFailed, ackOnEmpty>>
    /\ UNCHANGED <<scenario, number_of_messages, preloaded, zoneVars, zonesVars,
                   tagVars, cmdVars>>

DoAcknowledge ==
    /\ phase = "Running" /\ step = "acknowledge"
    /\ \E rejected \in BOOLEAN :
          IF rejected THEN Abort
          ELSE LET a == acknowledge_received_message(inflight, response) IN
               /\ inflight' = a.handles
               /\ ackOnEmpty' = ackOnEmpty + (IF response.Messages = <<>> THEN 1 ELSE 0)
               /\ IF a.st = "raise"
                  THEN /\ phase' = "Error"
                       /\ UNCHANGED <<iter, step, samples>>
                  ELSE /\ samples' = Append(samples, Sample("acknowledge", iter, TRUE))
                       /\ NextIteration
               /\ UNCHANGED <<queue, response, providerFailed>>
    /\ UNCHANGED <<scenario, number_of_messages, preloaded, zoneVars, zonesVars,
                   tagVars, cmdVars>>

\* ============================================================ specifications
ZoneNext == CallIsRegion \/ CallGetRegionFromZone
ZonesNext == CallGetRegionFromZones
TagNext == CallFormatTags \/ CallFormatTagSpecifications
Next == Attempt \/ RetryReturn \/ RetryAgain \/ RetryGiveUp
BenchNext == DoPublish \/ DoPull \/ DoAcknowledge

Init == ZoneIdle /\ ZonesIdle /\ TagIdle /\ CmdInit /\ BenchIdle

\* The retryable AWS command.
Spec == Init /\ [][Next]_vars
\* The same: an attempt ends (the process exits or its wait elapses) and the
\* retry wrapper then acts.
FairSpec == Spec /\ WF_vars(Next)
InitZone == ZoneInit /\ ZonesIdle /\ TagIdle /\ CmdIdle /\ BenchIdle
InitZones == ZoneIdle /\ ZonesInit /\ TagIdle /\ CmdIdle /\ BenchIdle
InitTags == ZoneIdle /\ ZonesIdle /\ TagInit /\ CmdIdle /\ BenchIdle
InitBench == ZoneIdle /\ ZonesIdle /\ TagIdle /\ CmdIdle /\ BenchInit

\* IsRegion and GetRegionFromZone on every string within the bounds.
SpecZone == InitZone /\ [][ZoneNext]_vars
\* GetRegionFromZones on every collection within the bounds.
SpecZones == InitZones /\ [][ZonesNext]_vars
\* FormatTags and FormatTagSpecifications on every dict within the bounds.
SpecTags == InitTags /\ [][TagNext]_vars
\* A benchmark phase over the SQS client.
SpecBench == InitBench /\ [][BenchNext]_vars

\* ==================================================================== claims
\* ---- shapes of names, stated apart from the pattern matcher
\* Two lowercase letters, hyphen, lowercase word, hyphen, one digit.
IsRegionShape(s) ==
    /\ Len(s) >= 6
    /\ s[1] \in Lower /\ s[2] \in Lower /\ s[3] = "-"
    /\ \A i \in 4..(Len(s) - 2) : s[i] \in Lower
    /\ s[Len(s) - 1] = "-"
    /\ s[Len(s)] \in Digits
\* A region followed by one lowercase letter.
IsZoneShape(s) == Len(s) >= 7 /\ s[Len(s)] \in Lower /\ IsRegionShape(DropLast(s))
ValidName(s) == IsRegionShape(s) \/ IsZoneShape(s)
\* A valid name, or a valid name followed by one final newline.
Accepted(s) ==
    \/ ValidName(s)
    \/ (Len(s) > 0 /\ s[Len(s)] = "\n" /\ ValidName(DropLast(s)))
\* The region of a valid name.
RegionOf(s) == IF IsZoneShape(s) THEN DropLast(s) ELSE s

\* C1: a single attempt with no suppress_failure returns (stdout, stderr)
\* exactly when the process exited with 0 and wrote nothing to stderr; with
\* exit code 0 and a non-empty stderr it raises CalledProcessException.
C1_AttemptFailsOnStderr ==
    (suppress_failure = "None" /\ Len(history) > 0) =>
        LET r == history[Len(history)] IN
        /\ (lastAttempt.st = "ok") <=> (r.retcode = 0 /\ r.stderr = "")
        /\ lastAttempt.st = "ok" => lastAttempt.val = <<r.stdout, r.stderr>>
        /\ (r.retcode = 0 /\ r.stderr # "") =>
              /\ lastAttempt.st = "raise"
              /\ lastAttempt.err = "CalledProcessException"

C1_Witness ==
    /\ suppress_failure = "None" /\ cmdPc = "wrap" /\ Len(history) > 0
    /\ history[Len(history)].retcode = 0
    /\ history[Len(history)].stderr # ""
    /\ lastAttempt.st = "raise"

Succeeds(r) == r.retcode = 0 /\ r.stderr = ""

AttemptFails(r, f) ==
    (r.retcode # 0 \/ r.stderr # "") /\ ~(f # "None" /\ Suppresses(f, r))

C4_Safety ==
    /\ Len(history) <= budget
    /\ (cmdPc = "done" /\ AttemptFails(history[Len(history)], suppress_failure)) =>
          /\ cmdRes.st = "raise"
          /\ cmdRes.err = "RetryBudgetExhausted"
          /\ cmdRes.cause = lastAttempt
          /\ lastAttempt.st = "raise"
          /\ lastAttempt.err = "CalledProcessException"
          /\ Len(history) = budget
          /\ returns = 0

RoundTripKind(p) ==
    CASE p % 3 = 1 -> "publish" [] p % 3 = 2 -> "pull" [] OTHER -> "acknowledge"

C7_CommonRegionOrMismatch ==
    (/\ zonesRes.st # "none"
     /\ zones # <<>>
     /\ \A i \in 1..Len(zones) : ValidName(zones[i])) =>
        LET regions == {RegionOf(zones[i]) : i \in 1..Len(zones)} IN
        IF Cardinality(regions) = 1
        THEN /\ zonesRes.st = "ok"
             /\ ~zonesRes.val.none
             /\ zonesRes.val.s \in regions
        ELSE /\ zonesRes.st = "raise"
             /\ zonesRes.err = "Exception"

C7_Witness ==
    /\ zonesRes.st = "ok"
    /\ Len(zones) >= 2
    /\ IsZoneShape(zones[1]) /\ IsRegionShape(zones[2])
    /\ zonesRes.val.s = zones[2]

\* The items of d in another order: d[p[1]], d[p[2]], ...
Orders(n) == {p \in [1..n -> 1..n] : \A i, j \in 1..n : i # j => p[i] # p[j]}
Reordered(d, p) == [i \in 1..Len(d) |-> d[p[i]]]

\* C8: the string FormatTagSpecifications gives lists the tags by ascending
\* key, so that it is the same for every insertion order of the same dict.
C8_TagSpecificationsSorted ==
    tagSpecRes.st = "ok" =>
        /\ tagSpecRes.val = FormatTagSpecifications(resource_type, SortedItems(tags_dict))
        /\ \A p \in Orders(Len(tags_dict)) :
              FormatTagSpecifications(resource_type, Reordered(tags_dict, p)) = tagSpecRes.val

\* "Key=k,Value=v"
TagEntry(k, v) == <<"K", "e", "y", "=">> \o k \o <<",", "V", "a", "l", "u", "e", "=">> \o v

\* C9: FormatTags gives one entry "Key=k,Value=v" per key of the dict, by
\* ascending key, and gives the same list for every insertion order.
C9_FormatTagsSortedProjection ==
    tagsRes.st = "ok" =>
        /\ Len(tagsRes.val) = Len(tags_dict)
        /\ \E p \in Orders(Len(tags_dict)) :
              /\ \A i \in 1..Len(tags_dict) :
                    tagsRes.val[i] = TagEntry(tags_dict[p[i]][1], tags_dict[p[i]][2])
              /\ \A i \in 1..(Len(tags_dict) - 1) :
                    StrLess(tags_dict[p[i]][1], tags_dict[p[i + 1]][1])
        /\ \A p \in Orders(Len(tags_dict)) :
              FormatTags(Reordered(tags_dict, p)) = tagsRes.val

\* FormatTags({"b": "2", "a": "1"}) == ["Key=a,Value=1", "Key=b,Value=2"]
C9_Witness ==
    /\ tags_dict = << <<(<<"b">>), (<<"2">>)>>, <<(<<"a">>), (<<"1">>)>> >>
    /\ tagsRes.st = "ok"
    /\ tagsRes.val = <<<<"K", "e", "y", "=", "a", ",", "V", "a", "l", "u", "e", "=", "1">>, <<"K", "e", "y", "=", "b", ",", "V", "a", "l", "u", "e", "=", "2">>>>

\* C10 as stated: IsRegion returns a boolean for every string, true exactly
\* for the region shape, and GetRegionFromZone returns for every string.
C10_TotalOnEveryString ==
    /\ isRegionRes.st # "none" =>
          /\ isRegionRes.st = "ok"
          /\ isRegionRes.val = IsRegionShape(zone_or_region)
    /\ regionRes.st # "none" => regionRes.st = "ok"

\* C10, amended: IsRegion and GetRegionFromZone return exactly for a valid
\* zone or region name, optionally followed by one final newline, and raise
\* ValueError for every other string; when IsRegion returns, it returns true
\* exactly for the region shape.
C10_TotalOnAcceptedNames ==
    /\ isRegionRes.st # "none" =>
          IF Accepted(zone_or_region)
          THEN /\ isRegionRes.st = "ok"
               /\ isRegionRes.val = IsRegionShape(zone_or_region)
          ELSE /\ isRegionRes.st = "raise"
               /\ isRegionRes.err = "ValueError"
    /\ regionRes.st # "none" =>
          IF Accepted(zone_or_region)
          THEN regionRes.st = "ok"
          ELSE regionRes.st = "raise" /\ regionRes.err = "ValueError"

C10_Witness ==
    /\ IsZoneShape(zone_or_region)
    /\ isRegionRes.st = "ok" /\ ~isRegionRes.val
    /\ regionRes.st = "ok" /\ IsRegionShape(regionRes.val)

====
